---------------------------- MODULE Spec2Model ----------------------------
(***************************************************************************)
(* Model of the ketama consistent-hashing ring of libredis (src/ketama.c). *)
(*                                                                         *)
(* One Ketama object is modelled: its server list, its counters and its    *)
(* continuum array.  Unsigned 32-bit values are pairs <<hi, lo>> of two    *)
(* 16-bit halves, compared as unsigned numbers.  The asserts of the source *)
(* are live (the build without NDEBUG): a failed assert ends the process.  *)
(***************************************************************************)
EXTENDS Integers, Sequences, FiniteSets, TLC

(* ------------------------------ bounds --------------------------------- *)

\* largest number of Ketama_add_server calls on the object
MaxServers == 3

\* largest array length handed to the search loop in isolation
MaxLen == 3

(* ------------------------- program constants --------------------------- *)

\* "pct * 40.0 * numservers": digest rounds per unit of share
HashScale == 40

\* "for( h = 0; h < 4; h++ )": 32-bit words taken from one digest
WordsPerDigest == 4

\* values of the pointer ketama->continuum
NULL == "NULL"

Heap == "heap"

(* ------------------------------ inputs --------------------------------- *)

Hosts == {"10.0.0.1", "10.0.0.2"}

Ports == {6379}

\* weights passed to Ketama_add_server; 100 against 1 makes a share small
\* enough to round down to zero rounds
Weights == {0, 1, 100}

\* a key is given by the first four bytes of its digest
Keys == { <<0, 0, 0, 0>>, <<1, 0, 0, 0>>, <<0, 0, 0, 128>>, <<255, 255, 255, 255>> }

\* the digest primitive is a black box; Seeds selects the instance in use
Seeds == {1}

(* ------------------------ unsigned 32-bit values ------------------------ *)

ULt(a, b) == a[1] < b[1] \/ (a[1] = b[1] /\ a[2] < b[2])

ULe(a, b) == a = b \/ ULt(a, b)

UZero == <<0, 0>>

\* ( d[3] << 24 ) | ( d[2] << 16 ) | ( d[1] << 8 ) | d[0], bytes b0..b3
WordOfBytes(b0, b1, b2, b3) == << b3 * 256 + b2, b1 * 256 + b0 >>

(* ---------------------------- the digest -------------------------------- *)

HostCode(host) == IF host = "10.0.0.1" THEN 3 ELSE 11

\* sprintf( info->addr, "%s:%d", addr, port )
FormatAddr(host, port) == << host, port >>

\* byte j (0..15) of the digest of the string "<addr>-<k>"
DigestByte(sd, addr, k, j) ==
    LET c == HostCode(addr[1]) + addr[2]
    IN  ( c * 37 + (k + 1) * (k + sd) * 101 + (j + 1) * 59 * (k + c) + sd * 73 + j * j * 17 ) % 256

\* ketama_md5_digest( ss, len, digest )
ketama_md5_digest(sd, addr, k) == [ j \in 0..15 |-> DigestByte(sd, addr, k, j) ]

\* ketama_hashi: the first word of the key's digest
ketama_hashi(key) == WordOfBytes(key[1], key[2], key[3], key[4])

(* ------------------- float arithmetic of the round count ---------------- *)

RECURSIVE Pow2(_)
Pow2(n) == IF n = 0 THEN 1 ELSE 2 * Pow2(n - 1)

RECURSIVE BitLen(_)
BitLen(n) == IF n = 0 THEN 0 ELSE 1 + BitLen(n \div 2)

\* smallest s with w * 2^s >= W, for 0 < w <= W
RECURSIVE NormShift(_, _)
NormShift(w, W) == IF w >= W THEN 0 ELSE 1 + NormShift(2 * w, W)

\* long division: bits more quotient bits of rem / W appended to q
RECURSIVE DivBits(_, _, _, _)
DivBits(q, rem, W, bits) ==
    IF bits = 0 THEN << q, rem >>
    ELSE IF 2 * rem >= W THEN DivBits(2 * q + 1, 2 * rem - W, W, bits - 1)
         ELSE DivBits(2 * q, 2 * rem, W, bits - 1)

\* (float)w / (float)W for 0 < w <= W, rounded to nearest-even:
\* the value is man * 2^-(23 + shift), man in 2^23 .. 2^24 - 1
FloatDiv(w, W) ==
    LET s   == NormShift(w, W)
        d   == DivBits(1, w * Pow2(s) - W, W, 23)
        q   == d[1]
        rem == d[2]
        up  == 2 * rem > W \/ (2 * rem = W /\ q % 2 = 1)
        m   == IF up THEN q + 1 ELSE q
    IN  IF m = 16777216 THEN [ man |-> 8388608, shift |-> s - 1 ]
        ELSE [ man |-> m, shift |-> s ]

\* floorf( pct * 40.0 * (float)numservers ): the product is exact in double,
\* is rounded to float for floorf, and the floor is taken
FloorfProduct(pct, n) ==
    LET K    == HashScale * n
        mh   == pct.man \div 4096
        ml   == pct.man % 4096
        B    == ml * K
        C    == mh * K + B \div 4096
        lo   == B % 4096
        t    == 23 + pct.shift
        d    == BitLen(C) - 12
        phi  == C * Pow2(12 - d) + lo \div Pow2(d)
        plo  == lo % Pow2(d)
        half == IF d = 0 THEN 0 ELSE Pow2(d - 1)
        up   == d > 0 /\ (plo > half \/ (plo = half /\ phi % 2 = 1))
        r    == IF up THEN phi + 1 ELSE phi
    IN  IF t - d >= 31 THEN 0 ELSE r \div Pow2(t - d)

\* the share computed in integer arithmetic (the float casts left out)
KsOfMut(w, W, n) ==
    IF w = 0 THEN 0 ELSE (w \div W) * HashScale * n

\* unsigned int ks = floorf( pct * 40.0 * (float)ketama->numservers ), W > 0
KsOf(w, W, n) ==
    IF w = 0 THEN 0 ELSE FloorfProduct(FloatDiv(w, W), n)

(* ------------------------- building the continuum ----------------------- *)

\* one digest round of a server: the point written for word h of round k
PointOf(sd, sinfo, k, h) ==
    LET digest == ketama_md5_digest(sd, sinfo.addr, k)
    IN  [ point |-> WordOfBytes(digest[h * 4], digest[1 + h * 4],
                                digest[2 + h * 4], digest[3 + h * 4]),
          ip    |-> sinfo.addr ]

\* the two inner loops for one server: 4 points for each of its ks rounds
ServerPoints(sd, sinfo, ks) ==
    [ j \in 1..(WordsPerDigest * ks) |->
        PointOf(sd, sinfo, (j - 1) \div WordsPerDigest, (j - 1) % WordsPerDigest) ]

\* the body of list_for_each_entry for the entries from i on; every point
\* is written at the running index cont, so the writes are a concatenation
RECURSIVE WritesFrom(_, _, _, _, _)
WritesFrom(sd, list, i, n, W) ==
    IF i > Len(list) THEN << >>
    ELSE ServerPoints(sd, list[i], KsOf(list[i].memory, W, n))
         \o WritesFrom(sd, list, i + 1, n, W)

\* the variant whose traversal starts one entry late
ContinuumWritesMut(sd, list, n, W) == WritesFrom(sd, list, 2, n, W)

\* list_for_each_entry( sinfo, &ketama->servers, list ): all the writes of
\* the construction, in list order from the first entry
ContinuumWrites(sd, list, n, W) == WritesFrom(sd, list, 1, n, W)

\* list_add( &info->list, &ketama->servers ): insertion after the head
ListAdd(info, list) == << info >> \o list

(* ------------------------------ the search ------------------------------ *)

\* (int)( ( lowp + highp ) / 2 ): C division truncates toward zero
CDiv2(x) == IF x >= 0 THEN x \div 2 ELSE -((-x) \div 2)

\* the variant with >= in place of > on the left neighbour
MatchesMut(h, midval, midval1) == ULe(h, midval) /\ ULe(midval1, h)

\* if ( h <= midval && h > midval1 )
Matches(h, midval, midval1) == ULe(h, midval) /\ ULt(midval1, h)

\* the while ( 1 ) loop; arr is the memory behind mcsarr (element 0 of the
\* source at position 1; empty behind a NULL pointer).  The result names the
\* element whose address is returned, whether an element outside arr was
\* read, and whether the loop ended within fuel iterations.
RECURSIVE SearchLoop(_, _, _, _, _, _)
SearchLoop(np, arr, h, lowp, highp, fuel) ==
    LET midp == CDiv2(lowp + highp)
    IN  IF fuel = 0 THEN [ idx |-> 0, oob |-> FALSE, term |-> FALSE ]
        ELSE IF midp = np THEN [ idx |-> 0, oob |-> FALSE, term |-> TRUE ]
        ELSE IF midp < 0 \/ midp >= Len(arr)
             THEN [ idx |-> midp, oob |-> TRUE, term |-> TRUE ]
        ELSE LET midval  == arr[midp + 1].point
                 midval1 == IF midp = 0 THEN UZero ELSE arr[midp].point
                 lowp2   == IF ULt(midval, h) THEN midp + 1 ELSE lowp
                 highp2  == IF ULt(midval, h) THEN highp ELSE midp - 1
             IN  IF Matches(h, midval, midval1)
                 THEN [ idx |-> midp, oob |-> FALSE, term |-> TRUE ]
                 ELSE IF lowp2 > highp2
                      THEN [ idx |-> 0, oob |-> FALSE, term |-> TRUE ]
                      ELSE SearchLoop(np, arr, h, lowp2, highp2, fuel - 1)

\* body of Ketama_get_server after the key is hashed
GetServer(np, arr, h) ==
    SearchLoop(np, arr, h, 0, np, np + 2)

(* ------------------------------- state ---------------------------------- *)

VARIABLES
    servers,     \* ketama->servers: list of serverinfo, list head first
    numservers,  \* ketama->numservers
    memory,      \* ketama->memory: sum of the weights
    numpoints,   \* ketama->numpoints
    continuum,   \* ketama->continuum: NULL or the allocated array
    points,      \* the mcs entries written from ketama->continuum on
    alloc,       \* number of mcs entries allocated for the continuum
    status,      \* "running", "aborted" (failed assert) or "crashed"
    seed,        \* the digest instance in use
    ret          \* the last call and what it returned

vars == << servers, numservers, memory, numpoints, continuum, points, alloc,
           status, seed, ret >>

NoCall == [ op |-> "none" ]

\* Ketama_new
Init ==
    /\ servers = << >>
    /\ numservers = 0
    /\ memory = 0
    /\ numpoints = 0
    /\ continuum = NULL
    /\ points = << >>
    /\ alloc = 0
    /\ status = "running"
    /\ seed \in Seeds
    /\ ret = NoCall

\* Ketama_add_server.  Once construction has written points past the end
\* of its allocation, the memory Alloc_alloc returns for the serverinfo may
\* be the memory those points are in: the first of them is then
\* overwritten, or the allocator fails on its damaged heap.
Ketama_add_server(host, port, weight) ==
    LET info == [ addr |-> FormatAddr(host, port), memory |-> weight ]
        past == continuum # NULL /\ Len(points) > alloc
    IN  /\ status = "running"
        /\ numservers < MaxServers
        /\ servers' = ListAdd(info, servers)
        /\ numservers' = numservers + 1
        /\ memory' = memory + weight
        /\ \/ /\ points' = points
              /\ status' = status
           \/ /\ past
              /\ points' = [ points EXCEPT
                              ![alloc + 1] = [ point |-> UZero, ip |-> info.addr ] ]
              /\ status' = status
           \/ /\ past
              /\ points' = points
              /\ status' = "crashed"
        /\ ret' = [ op |-> "add_server" ]
        /\ UNCHANGED << numpoints, continuum, alloc, seed >>

\* Ketama_create_continuum.  A failed assert aborts.  With total weight 0
\* pct is NaN and its conversion to unsigned is undefined: the rounds are 0
\* for every server, or so many that the writes fault.  Writes past the
\* allocation either land or fault.
Ketama_create_continuum ==
    /\ status = "running"
    /\ ret' = [ op |-> "create_continuum" ]
    /\ IF numservers = 0 \/ continuum # NULL
       THEN /\ status' = "aborted"
            /\ UNCHANGED << continuum, points, alloc >>
       ELSE /\ continuum' = Heap
            /\ alloc' = numservers
            /\ IF memory = 0
               THEN /\ points' = << >>
                    /\ status' \in { "running", "crashed" }
               ELSE /\ points' = ContinuumWrites(seed, servers, numservers, memory)
                    /\ IF Len(points') > alloc'
                       THEN status' \in { "running", "crashed" }
                       ELSE status' = "running"
    /\ UNCHANGED << servers, numservers, memory, numpoints, seed >>

\* Ketama_get_server: returns the address of an element of the continuum
\* (converted to int).  With numpoints = 0 the first pass finds
\* midp = numpoints and returns &continuum[0] without reading memory, also
\* when continuum is NULL; gcc accepts the zero-length array type of mcsarr.
Ketama_get_server(key) ==
    LET h == ketama_hashi(key)
        r == GetServer(numpoints, points, h)
    IN  /\ status = "running"
        /\ ret' = [ op |-> "get_server", h |-> h, base |-> continuum,
                    idx |-> r.idx, oob |-> r.oob, term |-> r.term ]
        /\ UNCHANGED << servers, numservers, memory, numpoints, continuum,
                        points, alloc, status, seed >>

AddServer == \E host \in Hosts, port \in Ports, weight \in Weights :
                 Ketama_add_server(host, port, weight)

GetServerCall == \E key \in Keys : Ketama_get_server(key)

Next == AddServer \/ Ketama_create_continuum \/ GetServerCall

Spec == Init /\ [][Next]_vars

(* -------------------- the search loop in isolation ---------------------- *)

\* positions and owners of the arrays handed to the loop
SamplePoints == { ketama_hashi(key) : key \in Keys }

SampleOwners == { FormatAddr(host, port) : host \in Hosts, port \in Ports }

IsSorted(arr) ==
    \A i \in 1..(Len(arr) - 1) : ULe(arr[i].point, arr[i + 1].point)

SortedArrays ==
    UNION { { arr \in [ 1..n -> [ point : SamplePoints, ip : SampleOwners ] ] :
                IsSorted(arr) } : n \in 1..MaxLen }

\* a Ketama object whose continuum is a sorted array of numpoints points
SearchInit ==
    /\ servers = << >>
    /\ numservers = 0
    /\ memory = 0
    /\ continuum = Heap
    /\ points \in SortedArrays
    /\ numpoints = Len(points)
    /\ alloc = Len(points)
    /\ status = "running"
    /\ seed \in Seeds
    /\ ret = NoCall

SearchNext == GetServerCall

SearchSpec == SearchInit /\ [][SearchNext]_vars

(* ------------------------- auxiliary definitions ------------------------ *)

RECURSIVE SumMem(_)
SumMem(list) == IF list = << >> THEN 0 ELSE Head(list).memory + SumMem(Tail(list))

\* the server list the continuum was built from: Ketama_add_server inserts
\* at the head, so these are the last alloc entries
BuiltFrom == SubSeq(servers, Len(servers) - alloc + 1, Len(servers))

RemoveAt(list, i) == SubSeq(list, 1, i - 1) \o SubSeq(list, i + 1, Len(list))

\* the ring a fresh Ketama object builds from a server list
RingOf(list) == ContinuumWrites(seed, list, Len(list), SumMem(list))

\* what stands for the owner when the element returned was never written
NoOwner == << "none", 0 >>

\* owner of the element a lookup returns on a freshly built object
\* (numpoints is 0 after Ketama_new and construction leaves it alone)
OwnerIn(ring, h) ==
    LET r == GetServer(0, ring, h)
    IN  IF ~r.oob /\ r.idx < Len(ring) THEN ring[r.idx + 1].ip ELSE NoOwner

\* construction has just completed on a valid server set
JustBuilt ==
    /\ ret.op = "create_continuum"
    /\ status = "running"
    /\ numservers >= 1
    /\ memory > 0

\* a lookup has just returned on a ring built from a valid server set
LookedUp ==
    /\ ret.op = "get_server"
    /\ status = "running"
    /\ continuum # NULL
    /\ alloc >= 1
    /\ SumMem(BuiltFrom) > 0

\* positions at or after h, and the position the contract asks for
SuccessorPoint(arr, h) ==
    LET ge   == { i \in 1..Len(arr) : ULe(h, arr[i].point) }
        from == IF ge = {} THEN 1..Len(arr) ELSE ge
    IN  CHOOSE p \in { arr[i].point : i \in from } :
            \A i \in from : ULe(p, arr[i].point)

\* index (from 0) of the leftmost element at or after h, 0 when there is none
LeftmostGE(arr, h) ==
    LET ge == { i \in 1..Len(arr) : ULe(h, arr[i].point) }
    IN  IF ge = {} THEN 0 ELSE (CHOOSE i \in ge : \A j \in ge : i <= j) - 1

(* ------------------------------- claims --------------------------------- *)

\* C1: after Ketama_create_continuum completes on a server set with at least
\* one server and total weight > 0, the points written are sorted ascending
\* by position.
C1_Sorted == JustBuilt => IsSorted(points)

\* C2: on a ring built from a valid server set, Ketama_get_server returns
\* the point with the smallest position >= hash(key) among all points
\* placed, or the smallest position of the ring when hash(key) exceeds them
\* all.
C2_Successor ==
    (LookedUp /\ alloc = numservers) =>
        /\ ~ret.oob
        /\ ret.idx < Len(points)
        /\ points[ret.idx + 1].point = SuccessorPoint(points, ret.h)

\* C3: Ketama_create_continuum called with zero servers or with total
\* weight 0 fails fatally; it never completes.
C3_InvalidConfigFatal ==
    (ret.op = "create_continuum" /\ (numservers = 0 \/ memory = 0)) =>
        status # "running"

\* C4: Ketama_get_server on an object whose ring was never constructed
\* (continuum NULL) or is empty (numpoints = 0) ends in a fatal error; it
\* never returns.
C4_LookupOnEmptyFatal ==
    (ret.op = "get_server" /\ (continuum = NULL \/ numpoints = 0)) =>
        status # "running"

\* C5: after construction on n >= 1 servers of total weight W > 0 every
\* server of weight w owns 4 * floor(40 * n * w / W) points (servers of one
\* address taken together) and numpoints is the sum of these counts.
C5_PointCounts ==
    JustBuilt =>
        LET Share(i) == WordsPerDigest *
                        ((HashScale * numservers * servers[i].memory) \div memory)
            Owned(a) == Cardinality({ j \in 1..Len(points) : points[j].ip = a })
            RECURSIVE SumShares(_, _)
            SumShares(i, a) ==
                IF i > Len(servers) THEN 0
                ELSE (IF a = "all" \/ servers[i].addr = a THEN Share(i) ELSE 0)
                     + SumShares(i + 1, a)
        IN  /\ \A i \in 1..Len(servers) :
                  Owned(servers[i].addr) = SumShares(1, servers[i].addr)
            /\ numpoints = SumShares(1, "all")

\* rounds of every server but the one at i are the same in both builds
SameRounds(i) ==
    LET rest == RemoveAt(servers, i)
    IN  \A j \in 1..Len(rest) :
            KsOf(rest[j].memory, SumMem(rest), Len(rest))
              = KsOf(rest[j].memory, memory, numservers)

\* the owner of every hash not owned by the server at i is the same in the
\* ring built without that server
OwnersKept(i) ==
    LET rest == RemoveAt(servers, i)
    IN  \A key \in Keys :
            LET h  == ketama_hashi(key)
                o1 == OwnerIn(points, h)
            IN  o1 # servers[i].addr => OwnerIn(RingOf(rest), h) = o1

\* C6 (as stated): for every server set S of N >= 2 servers and every server
\* r whose removal leaves total weight > 0, every hash whose owner in the
\* ring of S is not r has the same owner in the ring of S without r.
C6_MinimalDisruption ==
    (JustBuilt /\ numservers >= 2) =>
        \A i \in 1..Len(servers) :
            SumMem(RemoveAt(servers, i)) > 0 => OwnersKept(i)

\* C6 (amended): the same, for the removals that leave every remaining
\* server with the number of digest rounds it had before.
C6_MinimalDisruptionSameRounds ==
    (JustBuilt /\ numservers >= 2) =>
        \A i \in 1..Len(servers) :
            (SumMem(RemoveAt(servers, i)) > 0 /\ SameRounds(i)) => OwnersKept(i)

C6_Witness ==
    /\ JustBuilt
    /\ numservers >= 2
    /\ \E i \in 1..Len(servers) :
          /\ SumMem(RemoveAt(servers, i)) > 0
          /\ SameRounds(i)
          /\ servers[i].memory > 0
          /\ \E key \in Keys :
                OwnerIn(points, ketama_hashi(key)) # servers[i].addr

\* C7: on a ring built from a server set with a server of weight > 0, every
\* lookup returns a point that construction wrote, owned by a member of the
\* server set; with a single server the owner is that server.
C7_LookupTotal ==
    LookedUp =>
        /\ ~ret.oob
        /\ ret.term
        /\ ret.base # NULL
        /\ ret.idx < Len(points)
        /\ \E i \in 1..Len(servers) : points[ret.idx + 1].ip = servers[i].addr
        /\ \E i \in 1..Len(BuiltFrom) : points[ret.idx + 1].ip = BuiltFrom[i].addr
        /\ (alloc = 1 => points[ret.idx + 1].ip = BuiltFrom[1].addr)

C7_Witness ==
    /\ LookedUp
    /\ alloc = 1
    /\ ret.h = << 65535, 65535 >>
    /\ ret.idx < Len(points)
    /\ points[ret.idx + 1].ip = BuiltFrom[1].addr

C9_SearchLeftmost ==
    ret.op = "get_server" =>
        /\ ret.term
        /\ ~ret.oob
        /\ ret.idx = LeftmostGE(points, ret.h)

C9_Witness ==
    /\ ret.op = "get_server"
    /\ ret.idx >= 1
    /\ ret.idx + 2 <= Len(points)
    /\ points[ret.idx + 1].point = ret.h
    /\ points[ret.idx + 2].point = ret.h

\* C10: every index at which construction writes a point is less than the
\* number of entries allocated for the continuum.
C10_WritesInBounds ==
    (ret.op = "create_continuum" /\ status # "aborted" /\ memory > 0) =>
        \A j \in 1..Len(points) : j - 1 < alloc

============================================================================
